---- MODULE Spec2Model ----
(***************************************************************************)
(* Model of src/app.py: the renderer draw_bridge, which reads the truss    *)
(* model file (data/input.json) and the optional result file               *)
(* (data/output.json) and returns a Plotly scene and a recommended height, *)
(* under Spec; and the script around it, which writes the model file from  *)
(* the edited tables and runs the solver, under SpecApp.                   *)
(*                                                                         *)
(* Numbers.  Coordinates are multiples of a quarter metre and are kept as  *)
(* integers counting quarter metres; loads and reactions are integers      *)
(* counting newtons; member forces and safety factors are integers         *)
(* counting hundredths.  Every quantity the code obtains with *)
(* a square root (member length, complexity_factor, visual_scale) is kept  *)
(* exactly as the rational number that is its square: all of them are      *)
(* non-negative, so every comparison the code makes is decided on squares. *)
(***************************************************************************)
EXTENDS Integers, Sequences, FiniteSets, TLC

VARIABLES input_file, output_file, simulation_results, ret, prev_ret, calls,
          tables, exe, pc, pressed, solver, message, solved_input

\* The state of the application around draw_bridge: the edited tables, whether
\* truss_engine.exe exists, where the script is ("script": about to run from
\* the top, "buttons": past draw_bridge, at the button handlers, "idle": at
\* its end, waiting for the user), the button that started the script run,
\* the solver run of the script run, what it reported, and the content of
\* data/input.json that the solver run which wrote data/output.json was
\* given.
app_vars == <<tables, exe, pc, pressed, solver, message, solved_input>>

vars == <<input_file, output_file, simulation_results, ret, prev_ret, calls,
          tables, exe, pc, pressed, solver, message, solved_input>>

(***************************************************************************)
(* Bounds of the model.                                                    *)
(***************************************************************************)
MaxNodes == 3
MaxElems == 8
MaxResults == 2
MaxCalls == 2
MaxVariants == 2

(***************************************************************************)
(* Exact arithmetic on non-negative rationals <<n, d>> in lowest terms.    *)
(***************************************************************************)
Max(a, b) == IF a >= b THEN a ELSE b
Min(a, b) == IF a <= b THEN a ELSE b
Abs(a) == IF a < 0 THEN -a ELSE a

RECURSIVE GCD(_, _)
GCD(a, b) == IF b = 0 THEN a ELSE GCD(b, a % b)

R(n, d) == LET g == GCD(n, d) IN IF g = 0 THEN <<0, 1>> ELSE <<n \div g, d \div g>>
RMul(p, q) ==
    LET g1 == GCD(p[1], q[2])
        g2 == GCD(q[1], p[2])
        a == IF g1 = 0 THEN <<0, 1>> ELSE <<p[1] \div g1, q[2] \div g1>>
        b == IF g2 = 0 THEN <<0, 1>> ELSE <<q[1] \div g2, p[2] \div g2>>
    IN  R(a[1] * b[1], a[2] * b[2])
RLess(p, q) == p[1] * q[2] < q[1] * p[2]
RLeq(p, q) == p[1] * q[2] <= q[1] * p[2]
RMax(p, q) == IF RLess(p, q) THEN q ELSE p
RMin(p, q) == IF RLess(q, p) THEN q ELSE p

(***************************************************************************)
(* JSON values.  An object is a record, an array a sequence; a key that is *)
(* absent from an object is absent from the record's DOMAIN.               *)
(***************************************************************************)
Has(obj, key) == key \in DOMAIN obj
Get(obj, key, default) == IF key \in DOMAIN obj THEN obj[key] ELSE default

Drop(obj, key) == [k \in (DOMAIN obj) \ {key} |-> obj[k]]

(***************************************************************************)
(* The inputs.  data/input.json is written by the module script            *)
(* (src/app.py:545-567) with these fields; the pools below are the joints, *)
(* members and result entries the model draws its files from.              *)
(***************************************************************************)
Node(id, x, y, type, lx, ly) ==
    [id |-> id, x |-> x, y |-> y, type |-> type, loadX |-> lx, loadY |-> ly]

NodePool ==
    << Node(1, 0, 0, "Pinned Support", 0, 0),
       Node(2, 16, 0, "Free Joint", 0, -520),
       Node(3, 1, 5, "Roller Support", 0, 0),
       Node(4, 0, 0, "Pinned Support", 300, 400),
       Node(5, 1, 0, "Fixed (Rigid)", 1, 0) >>

Element(id, s, e) == [id |-> id, start |-> s, end |-> e]

\* Members 1, 2, 3, ... around the triangle of joints 1, 2, 3.
Regular(k) == [i \in 1..k |-> Element(i, ((i - 1) % 3) + 1, (i % 3) + 1)]

\* A member to a joint that does not exist, between two joints at the same
\* place, a quarter of a metre long, from a joint to itself.
SpecialElements ==
    { Element(21, 2, 9), Element(22, 1, 4), Element(23, 1, 5),
      Element(24, 1, 1), Element(25, 9, 1) }

ElementResult(id, force, safety) ==
    [id |-> id, force |-> force, stress |-> force, safety |-> safety]

ElementResultPool ==
    { ElementResult(1, -1000, 99), ElementResult(2, 1000, 100),
      ElementResult(3, 10, 199), ElementResult(1, 11, 200),
      Drop(ElementResult(1, 500, 300), "safety"),
      Drop(ElementResult(2, 500, 300), "force"),
      Drop(ElementResult(3, 500, 300), "id") }

NodeResult(id, rx, ry) == [id |-> id, rx |-> rx, ry |-> ry]

NodeResultPool ==
    { NodeResult(1, 0, 260), NodeResult(3, -300, 400), NodeResult(1, 1, 0),
      Drop(NodeResult(3, 0, 260), "rx"), Drop(NodeResult(1, 0, 260), "id") }

SeqsUpTo(S, n) == UNION {[1..k -> S] : k \in 0..n}

\* The subsequences of NodePool (in its order) of at most MaxNodes joints.
RECURSIVE Pick(_, _)
Pick(seq, keep) ==
    IF seq = << >> THEN << >>
    ELSE (IF Len(seq) \in keep THEN <<seq[Len(seq)]>> ELSE << >>)
         \o Pick(SubSeq(seq, 1, Len(seq) - 1), keep)

RECURSIVE Reverse(_)
Reverse(seq) == IF seq = << >> THEN << >> ELSE Reverse(Tail(seq)) \o <<Head(seq)>>

NodeLists ==
    { Reverse(Pick(NodePool, keep)) :
        keep \in {K \in SUBSET (1..Len(NodePool)) : Cardinality(K) <= MaxNodes} }

ElementLists ==
    { sp \o Regular(k) :
        sp \in {<< >>} \cup {<<s>> : s \in SpecialElements}, k \in 0..MaxElems - 1 }
    \cup { Regular(MaxElems) }

File(data) == [kind |-> "object", data |-> data]
Missing == [kind |-> "missing"]
Unparseable == [kind |-> "unparseable"]
Array == [kind |-> "array"]

GoodOutput ==
    File([elements |-> << ElementResult(1, -1000, 250), ElementResult(2, 1000, 150),
                          ElementResult(22, -1000, 300), ElementResult(23, 1000, 50) >>,
          nodes |-> <<NodeResult(1, 0, 260)>>])

\* Family A: geometry and member counts.
ModelsA == { File([nodes |-> ns, elements |-> es]) : ns \in NodeLists, es \in ElementLists }
OutputsA == { Missing, GoodOutput }

\* Family B: result files on the triangle.
ModelsB ==
    { File([nodes |-> SubSeq(NodePool, 1, 3), elements |-> Regular(k)]) : k \in 1..3 }
OutputsB ==
    { File([elements |-> es, nodes |-> ns]) :
        es \in SeqsUpTo(ElementResultPool, MaxResults),
        ns \in {<< >>, <<NodeResult(1, 0, 260)>>} }
    \cup { File([elements |-> << >>, nodes |-> <<n>>]) : n \in NodeResultPool }
    \cup { Unparseable, Array, File([status |-> "unstable"]) }

\* Family C: model files that are not of the documented shape.
Mangle(seq, i, key) == [seq EXCEPT ![i] = Drop(seq[i], key)]
ModelsC ==
    LET ns == SubSeq(NodePool, 1, 3)
        es == Regular(2)
    IN  { Missing, Unparseable, Array,
          File([nodes |-> ns]), File([elements |-> es]) }
        \cup { File([nodes |-> Mangle(ns, i, key), elements |-> es]) :
                 i \in 1..3, key \in {"id", "x", "y", "type", "loadX", "loadY"} }
        \cup { File([nodes |-> ns, elements |-> Mangle(es, i, key)]) :
                 i \in 1..2, key \in {"id", "start", "end"} }
OutputsC == { Missing, GoodOutput }

NotCalled == [kind |-> "not called"]

\* Lines 13-27: the tables of a new session.  A row of the joints' table is
\* kept with the load that lines 551-557 add to it; the load on joint 2 is
\* 40 kN where the source has 50 kN, to keep its square, in newtons, within
\* 32-bit integers.
Tables(nodes, beams) == [nodes |-> nodes, beams |-> beams]
DefaultNodes ==
    << Node(1, 0, 0, "Pinned Support", 0, 0), Node(2, 16, 0, "Free Joint", 0, -40000),
       Node(3, 32, 0, "Roller Support", 0, 0), Node(4, 16, 16, "Free Joint", 0, 0) >>
DefaultBeams ==
    << Element(1, 1, 2), Element(2, 2, 3), Element(3, 1, 4), Element(4, 2, 4),
       Element(5, 4, 3) >>
DefaultTables == Tables(DefaultNodes, DefaultBeams)

\* Lines 588-590: the tables after Clear All.
EmptyTables == Tables(<< >>, << >>)

\* The tables a user edits the session's tables into: a beam removed, a
\* joint moved, rows of beams from a joint to itself and to a joint that
\* does not exist, two joints at one place with a beam between them.
AppTables ==
    { DefaultTables, EmptyTables,
      Tables(DefaultNodes, SubSeq(DefaultBeams, 1, 4)),
      Tables([DefaultNodes EXCEPT ![4] = Node(4, 16, 12, "Free Joint", 0, 0)],
             DefaultBeams),
      Tables(DefaultNodes, DefaultBeams \o <<Element(6, 3, 3), Element(7, 1, 9)>>),
      Tables(<<Node(1, 0, 0, "Pinned Support", 0, 0), Node(2, 0, 0, "Roller Support", 0, 0)>>,
             <<Element(1, 1, 2)>>) }

NotRun == [ran |-> FALSE]
NoSolve == [kind |-> "none"]

\* A new session: nothing pressed, run or reported.
NewSession ==
    /\ tables = DefaultTables
    /\ pressed = "none"
    /\ solver = NotRun
    /\ message = "none"
    /\ solved_input = NoSolve

Init ==
    /\ \/ input_file \in ModelsA /\ output_file \in OutputsA
       \/ input_file \in ModelsB /\ output_file \in OutputsB
       \/ input_file \in ModelsC /\ output_file \in OutputsC
    /\ simulation_results = [elements |-> << >>, _legend_set |-> {}, _support_legend |-> {}]
    /\ ret = NotCalled
    /\ prev_ret = NotCalled
    /\ calls = 0
    /\ exe = FALSE
    /\ pc = "idle"
    /\ NewSession

(***************************************************************************)
(* draw_bridge, lines 49-64: reading the two files.                        *)
(***************************************************************************)
\* The entries of a JSON array read by a loop "d[entry['id']] = entry": the
\* loop stops with KeyError at the first entry that has no id.
RECURSIVE ReadablePrefix(_)
ReadablePrefix(entries) ==
    IF entries = << >> \/ ~Has(Head(entries), "id") THEN << >>
    ELSE <<Head(entries)>> \o ReadablePrefix(Tail(entries))

\* The dict such a loop leaves behind: for every id the last entry holding it.
ById(entries) ==
    [id \in {entries[i].id : i \in DOMAIN entries} |->
        entries[CHOOSE i \in DOMAIN entries :
                   /\ entries[i].id = id
                   /\ \A j \in DOMAIN entries : entries[j].id = id => j <= i]]

\* Mutant of new_simulation_results: the dict is not a local: the call goes
\* on with the dict the previous call left.
kept_simulation_results(prev) == prev

\* Line 55: the dict that will hold the results and the legend registries.
\* It is a local of the call; prev is the dict the previous call left behind.
new_simulation_results(prev) ==
    [elements |-> << >>, _legend_set |-> {}, _support_legend |-> {}]

\* Lines 58-62: the member results read from the result file.
read_simulation_results(file) ==
    IF file.kind = "object"
    THEN ById(ReadablePrefix(Get(file.data, "elements", << >>)))
    ELSE << >>

\* Lines 58-64: the joint results; the loop at line 63 is reached only when
\* the loop at line 62 ended without an exception.
read_node_results(file) ==
    IF file.kind = "object"
    THEN LET es == Get(file.data, "elements", << >>)
         IN  IF ReadablePrefix(es) = es
             THEN ById(ReadablePrefix(Get(file.data, "nodes", << >>)))
             ELSE << >>
    ELSE << >>

\* Line 66: all_nodes, and the order in which the dict yields its keys
\* (the order of first insertion).
all_nodes_of(nodes) == ById(nodes)

RECURSIVE KeyOrder(_, _)
KeyOrder(nodes, seen) ==
    IF nodes = << >> THEN << >>
    ELSE IF Head(nodes).id \in seen THEN KeyOrder(Tail(nodes), seen)
         ELSE <<Head(nodes).id>> \o KeyOrder(Tail(nodes), seen \cup {Head(nodes).id})

(***************************************************************************)
(* Lines 71-91: the scene metrics.                                         *)
(***************************************************************************)
\* The member count the metrics use.
member_count(all_nodes, all_elements) == Len(all_elements)

\* Line 72, squared: max(0.35, sqrt(12 / max(12, n)))^2.
complexity_factor_sq(n) == RMax(R(1225, 10000), R(12, Max(12, n)))

SetMax(S) == CHOOSE m \in S : \A k \in S : k <= m
SetMin(S) == CHOOSE m \in S : \A k \in S : m <= k

\* Lines 75-79: the extents of the joints; 10 and 5 when there are none.
span_x(all_nodes) ==
    LET x_coords == {all_nodes[id].x : id \in DOMAIN all_nodes}
    IN  IF x_coords # {} THEN SetMax(x_coords) - SetMin(x_coords) ELSE 10
span_y(all_nodes) ==
    LET y_coords == {all_nodes[id].y : id \in DOMAIN all_nodes}
    IN  IF y_coords # {} THEN SetMax(y_coords) - SetMin(y_coords) ELSE 5

\* Mutant of rec_h_of: the height is not clamped.
rec_h_unclamped(all_nodes) ==
    LET dx == span_x(all_nodes)
        dy == span_y(all_nodes)
    IN  500 + (IF dx > 0 THEN (dy * 300) \div dx ELSE 300)

\* Mutant of rec_h_of: aspect_ratio * 300 is rounded to the nearest integer.
rec_h_rounded(all_nodes) ==
    LET dx == span_x(all_nodes)
        dy == span_y(all_nodes)
        scaled == IF dx > 0 THEN (2 * dy * 300 + dx) \div (2 * dx) ELSE 300
    IN  Max(500, Min(900, 500 + scaled))

\* Lines 79-80: aspect_ratio = dy / dx if dx > 0 else 1, and
\* rec_h = max(500, min(900, 500 + int(aspect_ratio * 300))); int truncates,
\* and dy * 300 / dx is never negative.
rec_h_of(all_nodes) ==
    LET dx == span_x(all_nodes)
        dy == span_y(all_nodes)
        scaled == IF dx > 0 THEN (dy * 300) \div dx ELSE 300
    IN  Max(500, Min(900, 500 + scaled))

\* A member's length squared, in square metres (coordinates count quarter
\* metres).
Resolvable(all_nodes, e) == e.start \in DOMAIN all_nodes /\ e.end \in DOMAIN all_nodes

length_sq(all_nodes, e) ==
    LET a == all_nodes[e.start]
        b == all_nodes[e.end]
    IN  R((a.x - b.x) * (a.x - b.x) + (a.y - b.y) * (a.y - b.y), 16)

\* Lines 84-86: the lengths of the members with both joints in all_nodes.
lengths_sq(all_nodes, all_elements) ==
    { length_sq(all_nodes, all_elements[i]) :
        i \in {j \in DOMAIN all_elements : Resolvable(all_nodes, all_elements[j])} }

RSetMin(S) == CHOOSE m \in S : \A k \in S : RLeq(m, k)

\* Line 87: min(l for l in lengths if l > 0) raises ValueError when no length
\* is positive.
MinRaises(all_nodes, all_elements) ==
    LET lengths == lengths_sq(all_nodes, all_elements)
    IN  /\ all_elements # << >>
        /\ lengths # {}
        /\ \A l \in lengths : l[1] = 0

\* Lines 82-87, squared: min_len.
min_len_sq(all_nodes, all_elements) ==
    LET lengths == lengths_sq(all_nodes, all_elements)
    IN  IF all_elements # << >> /\ lengths # {}
        THEN RSetMin({l \in lengths : l[1] > 0})
        ELSE R(4, 1)

\* Line 90, squared: auto_mult.
auto_mult_sq(n) ==
    IF n > 20 THEN R(3025, 10000)
    ELSE IF n < 8 THEN R(5625, 10000) ELSE R(4225, 10000)

\* Mutant of visual_scale_sq: the term of min_len has no floor.
visual_scale_sq_unfloored(all_nodes, all_elements) ==
    LET n == member_count(all_nodes, all_elements)
        clamped == RMin(RMul(min_len_sq(all_nodes, all_elements), R(9, 100)),
                        R(36, 100))
    IN  RMul(RMul(clamped, complexity_factor_sq(n)), auto_mult_sq(n))

\* Line 91, squared: max(0.1, min(min_len * 0.3, 0.6)) * complexity_factor
\* * auto_mult.
visual_scale_sq(all_nodes, all_elements) ==
    LET n == member_count(all_nodes, all_elements)
        clamped == RMax(R(1, 100),
                        RMin(RMul(min_len_sq(all_nodes, all_elements), R(9, 100)),
                             R(36, 100)))
    IN  RMul(RMul(clamped, complexity_factor_sq(n)), auto_mult_sq(n))

(***************************************************************************)
(* Points of the scene.  A point is base/2 + dist * dir/|dir|, in quarter  *)
(* metres: base holds doubled coordinates so that a midpoint is integral,  *)
(* dir is an integer vector in lowest terms (<<0, 0>> stands for the NaN   *)
(* direction 0/0), and dist = v/100 * visual_scale + l/100 * member length.*)
(***************************************************************************)
Direction(dx, dy) ==
    LET g == GCD(Abs(dx), Abs(dy))
    IN  IF g = 0 THEN <<0, 0>> ELSE <<dx \div g, dy \div g>>

Dist(v, l) == [v |-> v, l |-> l]
Pt(base, dir, dist) == [base |-> base, dir |-> dir, dist |-> dist]

NoText == [kind |-> "none"]

\* Lines 94-137: one arrow from (start_x, start_y) to (end_x, end_y): the
\* shaft and the head, each drawn three times (dark, white, color), and the
\* label when a text is given.  h_sz = 0.48 * visual_scale; the shaft runs
\* from 0.08 * h_sz after the tail to (0.7 + 0.08) * h_sz before the head.
add_trace_arrow(start, end, color, name, group, text, cf_sq) ==
    LET shaft(c, w) ==
            [trace |-> "shaft", from |-> start, to |-> end, color |-> c,
             width_sq |-> w, legendgroup |-> group, showlegend |-> FALSE]
        head(c, w) ==
            [trace |-> "head", from |-> start, to |-> end, color |-> c,
             width_sq |-> w, legendgroup |-> group, showlegend |-> FALSE]
        w_dark == RMax(R(36, 1), RMul(R(64, 1), cf_sq))
        w_white == RMax(R(16, 1), RMul(R(36, 1), cf_sq))
        w_color == RMax(R(4, 1), RMul(R(16, 1), cf_sq))
        \* Lines 129-130: beyond the head when "Force" is in the name, unless
        \* "Reaction" is in it too.
        force_in_name == name \in {"Internal Force", "Load Force", "Reaction Force"}
        reaction_in_name == name = "Reaction Force"
        at == IF force_in_name /\ ~reaction_in_name THEN "beyond head" ELSE "before tail"
        \* Line 135: min(10, 8.0 + 2.5 * complexity_factor).
        size == IF RLeq(R(64, 100), cf_sq) THEN "10" ELSE "8 + 2.5 cf"
    IN  [data |-> << shaft("#0f172a", w_dark), head("#0f172a", R(625, 100)),
                     shaft("white", w_white), head("white", R(225, 100)),
                     shaft(color, w_color), head(color, R(64, 100)) >>,
         annotations |->
            IF text = NoText THEN << >>
            ELSE << [label |-> "arrow", text |-> text, from |-> start, to |-> end,
                     at |-> at, offset |-> 45, bgcolor |-> color, size |-> size] >>]

(***************************************************************************)
(* Lines 139-237: the members.                                             *)
(***************************************************************************)
\* Mutant of beam_style: the bands are closed at their upper ends.
beam_style_closed(element, results) ==
    IF element.id \in DOMAIN results
    THEN LET safety_factor == results[element.id].safety
         IN  IF safety_factor <= 100 THEN <<"#ef4444", 6>>
             ELSE IF safety_factor <= 200 THEN <<"#f59e0b", 5>>
             ELSE <<"#10b981", 6>>
    ELSE <<"#3b82f6", 4>>

\* Lines 150-166: beam_color and beam_width.
beam_style(element, results) ==
    IF element.id \in DOMAIN results
    THEN LET safety_factor == results[element.id].safety
         IN  IF safety_factor < 100 THEN <<"#ef4444", 6>>
             ELSE IF safety_factor < 200 THEN <<"#f59e0b", 5>>
             ELSE <<"#10b981", 6>>
    ELSE <<"#3b82f6", 4>>

\* Lines 151, 159: hover_text, with force and safety to two decimals.
hover_text(element, results) ==
    IF element.id \in DOMAIN results
    THEN [beam |-> element.id, force |-> results[element.id].force,
          safety |-> results[element.id].safety]
    ELSE [beam |-> element.id]

\* Lines 169-175: legend_group_name.
legend_group_name(element, results) ==
    IF element.id \notin DOMAIN results THEN "Beam (Draft)"
    ELSE LET safety_factor == results[element.id].safety
         IN  IF safety_factor < 100 THEN "Beam (Unsafe)"
             ELSE IF safety_factor < 200 THEN "Beam (Caution)"
             ELSE "Beam (Safe)"

\* Mutant of beam_trace: every line shows its legend entry.
beam_trace_always_shown(all_nodes, element, results, legend_set) ==
    LET node_start == all_nodes[element.start]
        node_end == all_nodes[element.end]
        style == beam_style(element, results)
        group == legend_group_name(element, results)
    IN  [trace |-> "beam", id |-> element.id,
         x |-> <<node_start.x, node_end.x>>, y |-> <<node_start.y, node_end.y>>,
         color |-> style[1], width |-> style[2],
         text |-> hover_text(element, results),
         name |-> group, legendgroup |-> group,
         showlegend |-> TRUE]

\* Lines 185-195: the member's line.
beam_trace(all_nodes, element, results, legend_set) ==
    LET node_start == all_nodes[element.start]
        node_end == all_nodes[element.end]
        style == beam_style(element, results)
        group == legend_group_name(element, results)
    IN  [trace |-> "beam", id |-> element.id,
         x |-> <<node_start.x, node_end.x>>, y |-> <<node_start.y, node_end.y>>,
         color |-> style[1], width |-> style[2],
         text |-> hover_text(element, results),
         name |-> group, legendgroup |-> group,
         showlegend |-> (group \notin legend_set)]

\* Line 198: the member gets internal-force arrows.
has_force_arrows(element, results) ==
    /\ element.id \in DOMAIN results
    /\ Abs(results[element.id].force) > 10

\* Lines 218-230: the distances of tail and tip from the midpoint.
arrow_length(vs_sq, len_sq) ==
    IF RLess(RMul(len_sq, R(1225, 10000)), RMul(vs_sq, R(225, 100)))
    THEN Dist(0, 35) ELSE Dist(150, 0)
inner_gap_distance(vs_sq, len_sq) ==
    IF RLess(RMul(len_sq, R(1, 100)), RMul(vs_sq, R(36, 100)))
    THEN Dist(0, 10) ELSE Dist(60, 0)
outer_gap_distance(vs_sq, len_sq) ==
    LET a == arrow_length(vs_sq, len_sq)
        g == inner_gap_distance(vs_sq, len_sq)
    IN  Dist(g.v + a.v, g.l + a.l)

\* Mutant of dist_tail: the tail is at the outer gap whatever the sign.
dist_tail_outer(is_compression, vs_sq, len_sq) == outer_gap_distance(vs_sq, len_sq)

dist_tail(is_compression, vs_sq, len_sq) ==
    IF is_compression THEN outer_gap_distance(vs_sq, len_sq)
    ELSE inner_gap_distance(vs_sq, len_sq)
dist_tip(is_compression, vs_sq, len_sq) ==
    IF is_compression THEN inner_gap_distance(vs_sq, len_sq)
    ELSE outer_gap_distance(vs_sq, len_sq)

\* Lines 198-237: the two arrows of a member, for sign 1 and then -1, as
\* pairs <<tail, head>>.
force_arrow_ends(all_nodes, element, results, vs_sq) ==
    LET a == all_nodes[element.start]
        b == all_nodes[element.end]
        is_compression == results[element.id].force <= 0
        len_sq == length_sq(all_nodes, element)
        midpoint == <<a.x + b.x, a.y + b.y>>
        end(sign, dist) ==
            Pt(midpoint, Direction(sign * (b.x - a.x), sign * (b.y - a.y)), dist)
        arrow(sign) ==
            << end(sign, dist_tail(is_compression, vs_sq, len_sq)),
               end(sign, dist_tip(is_compression, vs_sq, len_sq)) >>
    IN  <<arrow(1), arrow(-1)>>

force_arrows(all_nodes, element, results, vs_sq, cf_sq) ==
    LET ends == force_arrow_ends(all_nodes, element, results, vs_sq)
        is_compression == results[element.id].force <= 0
        arrow_color == IF is_compression THEN "#fb923c" ELSE "#22d3ee"
        legend_group_arrow ==
            IF is_compression THEN "Compression Force" ELSE "Tension Force"
        one(k) == add_trace_arrow(ends[k][1], ends[k][2], arrow_color,
                                  "Internal Force", legend_group_arrow, NoText, cf_sq)
    IN  one(1).data \o one(2).data

\* Lines 140-237: the loop over the members; st = [data, legend_set].
RECURSIVE beams(_, _, _, _, _, _)
beams(all_nodes, all_elements, results, vs_sq, cf_sq, st) ==
    IF all_elements = << >> THEN st
    ELSE LET element == Head(all_elements)
             rest == Tail(all_elements)
         IN  IF ~Resolvable(all_nodes, element)
             THEN beams(all_nodes, rest, results, vs_sq, cf_sq, st)
             ELSE beams(all_nodes, rest, results, vs_sq, cf_sq,
                    [data |-> st.data
                        \o <<beam_trace(all_nodes, element, results, st.legend_set)>>
                        \o (IF has_force_arrows(element, results)
                            THEN force_arrows(all_nodes, element, results, vs_sq, cf_sq)
                            ELSE << >>),
                     legend_set |-> st.legend_set
                        \cup {legend_group_name(element, results)}])

\* Lines 239-240: the four legend entries of the force kinds; showlegend is
\* not set on them, so Plotly shows them.
legend_entries ==
    << [trace |-> "legend", name |-> "Tension Force", legendgroup |-> "Tension Force",
        color |-> "#22d3ee", showlegend |-> TRUE],
       [trace |-> "legend", name |-> "Compression Force",
        legendgroup |-> "Compression Force", color |-> "#fb923c", showlegend |-> TRUE],
       [trace |-> "legend", name |-> "Load Force", legendgroup |-> "Load Force",
        color |-> "#f43f5e", showlegend |-> TRUE],
       [trace |-> "legend", name |-> "Reaction Force", legendgroup |-> "Reaction Force",
        color |-> "#8b5cf6", showlegend |-> TRUE] >>

(***************************************************************************)
(* Lines 244-312: the joints' supports, loads and reactions.               *)
(***************************************************************************)
\* floor(sqrt(n)).
RECURSIVE IsqrtFrom(_, _)
IsqrtFrom(n, r) == IF (r + 1) * (r + 1) > n THEN r ELSE IsqrtFrom(n, r + 1)
RECURSIVE Isqrt(_)
Isqrt(n) == IF n < 4 THEN IsqrtFrom(n, 0) ELSE IsqrtFrom(n, 2 * Isqrt(n \div 4))

\* f"{magnitude:.1f}" of sqrt(sum_sq) newtons in kN: the tenths of a kN
\* nearest to it (no pool value lies halfway between two tenths).
tenths_kN(sum_sq) == (Isqrt(sum_sq) + 50) \div 100

\* Line 259-260: markers.get(support_type, ('circle', '#1e3d59')).
marker_of(support_type) ==
    CASE support_type = "Pinned Support" -> <<"triangle-up-dot", "#000000">>
      [] support_type = "Roller Support" -> <<"circle", "#000000">>
      [] support_type = "Fixed (Rigid)" -> <<"square-dot", "#000000">>
      [] OTHER -> <<"circle", "#1e3d59">>

\* Lines 262-277: the support glyph of a joint that is not free.
support_trace(node, vs_sq, support_legend) ==
    LET support_type == Get(node, "type", "Free Joint")
    IN  [trace |-> "support", x |-> node.x, y |-> node.y, below |-> 12,
         symbol |-> marker_of(support_type)[1], color |-> marker_of(support_type)[2],
         size_sq |-> RMax(R(484, 1), RMul(R(3025, 1), vs_sq)),
         name |-> support_type, legendgroup |-> support_type,
         showlegend |-> (support_type \notin support_legend)]

\* Lines 282-286: sqrt(loadX^2 + loadY^2) / 1000 > 0.001.
has_load_arrow(node) ==
    LET lx == Get(node, "loadX", 0)
        ly == Get(node, "loadY", 0)
    IN  lx * lx + ly * ly > 1

\* Lines 287-295: the load arrow, from 0.15 to 1.6 visual_scale along the load.
load_arrow(node, cf_sq) ==
    LET lx == Get(node, "loadX", 0)
        ly == Get(node, "loadY", 0)
        at(d) == Pt(<<2 * node.x, 2 * node.y>>, Direction(lx, ly), Dist(d, 0))
    IN  add_trace_arrow(at(15), at(160), "#f43f5e", "Load Force", "Load Force",
                        [kind |-> "kN", tenths |-> tenths_kN(lx * lx + ly * ly)], cf_sq)

\* Lines 300-304: the joint has a result whose magnitude / 1000 > 0.001.
has_reaction_arrow(node_id, node_results) ==
    /\ node_id \in DOMAIN node_results
    /\ LET rx == Get(node_results[node_id], "rx", 0)
           ry == Get(node_results[node_id], "ry", 0)
       IN  rx * rx + ry * ry > 1

\* Mutant of reaction_arrow: tail and head are exchanged, so that the arrow
\* leaves the joint against the reaction.
reaction_arrow_reversed(node, node_results, cf_sq) ==
    LET rx == Get(node_results[node.id], "rx", 0)
        ry == Get(node_results[node.id], "ry", 0)
        at(d) == Pt(<<2 * node.x, 2 * node.y>>, Direction(-rx, -ry), Dist(d, 0))
    IN  add_trace_arrow(at(25), at(160 + 25), "#8b5cf6", "Reaction Force",
                        "Reaction Force",
                        [kind |-> "R", tenths |-> tenths_kN(rx * rx + ry * ry)], cf_sq)

\* Lines 305-312: the reaction arrow: r_gap = 0.25 and r_len = 1.6
\* visual_scale, tail at node - unit * (r_len + r_gap), head at
\* node - unit * r_gap.
reaction_arrow(node, node_results, cf_sq) ==
    LET rx == Get(node_results[node.id], "rx", 0)
        ry == Get(node_results[node.id], "ry", 0)
        at(d) == Pt(<<2 * node.x, 2 * node.y>>, Direction(-rx, -ry), Dist(d, 0))
    IN  add_trace_arrow(at(160 + 25), at(25), "#8b5cf6", "Reaction Force",
                        "Reaction Force",
                        [kind |-> "R", tenths |-> tenths_kN(rx * rx + ry * ry)], cf_sq)

\* Lines 247-312: the loop over the joints;
\* st = [data, annotations, support_legend].
RECURSIVE joints(_, _, _, _, _, _)
joints(all_nodes, order, node_results, vs_sq, cf_sq, st) ==
    IF order = << >> THEN st
    ELSE LET node_id == Head(order)
             node == all_nodes[node_id]
             support_type == Get(node, "type", "Free Joint")
             support == IF support_type # "Free Joint"
                        THEN <<support_trace(node, vs_sq, st.support_legend)>>
                        ELSE << >>
             load == IF has_load_arrow(node) THEN load_arrow(node, cf_sq)
                     ELSE [data |-> << >>, annotations |-> << >>]
             reaction == IF has_reaction_arrow(node_id, node_results)
                         THEN reaction_arrow(node, node_results, cf_sq)
                         ELSE [data |-> << >>, annotations |-> << >>]
         IN  joints(all_nodes, Tail(order), node_results, vs_sq, cf_sq,
                [data |-> st.data \o support \o load.data \o reaction.data,
                 annotations |-> st.annotations \o load.annotations
                                    \o reaction.annotations,
                 support_legend |->
                    IF support_type # "Free Joint"
                    THEN st.support_legend \cup {support_type}
                    ELSE st.support_legend])

\* Lines 315-319: the one trace that draws every joint's marker;
\* size = max(10, 12 * visual_scale / visualization_scale_multiplier) with
\* the multiplier at its default 0.6.
joint_markers(all_nodes, order, vs_sq) ==
    [trace |-> "joints",
     x |-> [i \in DOMAIN order |-> all_nodes[order[i]].x],
     y |-> [i \in DOMAIN order |-> all_nodes[order[i]].y],
     ids |-> order,
     size_sq |-> RMax(R(100, 1), RMul(R(400, 1), vs_sq)),
     showlegend |-> FALSE]

\* Lines 322-328: the joints' labels.
joint_labels(all_nodes, order) ==
    [i \in DOMAIN order |->
        [label |-> "joint", text |-> order[i],
         x |-> all_nodes[order[i]].x, y |-> all_nodes[order[i]].y,
         bgcolor |-> "#1e3d59"]]

\* Mutant of label_bg_color: the bands are closed at their upper ends.
label_bg_color_closed(element, results) ==
    IF element.id \in DOMAIN results
    THEN LET safety_val == results[element.id].safety
         IN  IF safety_val <= 100 THEN "#ef4444"
             ELSE IF safety_val <= 200 THEN "#f59e0b"
             ELSE "#10b981"
    ELSE "#3b82f6"

\* Lines 340-346: label_bg_color.
label_bg_color(element, results) ==
    IF element.id \in DOMAIN results
    THEN LET safety_val == results[element.id].safety
         IN  IF safety_val < 100 THEN "#ef4444"
             ELSE IF safety_val < 200 THEN "#f59e0b"
             ELSE "#10b981"
    ELSE "#3b82f6"

\* Lines 331-352: the members' labels, at the midpoints (doubled).
RECURSIVE beam_labels(_, _, _)
beam_labels(all_nodes, all_elements, results) ==
    IF all_elements = << >> THEN << >>
    ELSE LET element == Head(all_elements)
             rest == beam_labels(all_nodes, Tail(all_elements), results)
         IN  IF ~Resolvable(all_nodes, element) THEN rest
             ELSE << [label |-> "beam", text |-> element.id,
                      x2 |-> all_nodes[element.start].x + all_nodes[element.end].x,
                      y2 |-> all_nodes[element.start].y + all_nodes[element.end].y,
                      bgcolor |-> label_bg_color(element, results)] >> \o rest

(***************************************************************************)
(* draw_bridge as a whole.                                                 *)
(***************************************************************************)
Merge(a, b) ==
    [k \in DOMAIN a \cup DOMAIN b |-> IF k \in DOMAIN b THEN b[k] ELSE a[k]]

Raise(exception, line) == [kind |-> "raise", exception |-> exception, line |-> line]
NoRaise == [kind |-> "no raise"]

\* Mutant of LengthsRaise: the comprehension has no "if ... in all_nodes"
\* filter, so all_nodes[e['start']] raises KeyError for an unknown joint.
LengthsRaise_unfiltered(all_nodes, all_elements) ==
    \E i \in DOMAIN all_elements :
        LET e == all_elements[i]
        IN  \/ ~Has(e, "start")
            \/ e.start \notin DOMAIN all_nodes
            \/ ~Has(e, "end")
            \/ e.end \notin DOMAIN all_nodes

\* Lines 84-86: the comprehension reads e['start'], and e['end'] when the
\* start joint exists.
LengthsRaise(all_nodes, all_elements) ==
    \E i \in DOMAIN all_elements :
        LET e == all_elements[i]
        IN  \/ ~Has(e, "start")
            \/ e.start \in DOMAIN all_nodes /\ ~Has(e, "end")

\* Lines 151-158: what the loop body reads of a member it draws.
BeamRaises(element, results) ==
    \/ ~Has(element, "id")
    \/ /\ element.id \in DOMAIN results
       /\ \/ ~Has(results[element.id], "safety")
          \/ ~Has(results[element.id], "force")

\* The members the loop at line 140 handles before it raises (all of them
\* when it does not).
RECURSIVE HandledPrefix(_, _, _)
HandledPrefix(all_nodes, all_elements, results) ==
    IF all_elements = << >> THEN << >>
    ELSE IF /\ Resolvable(all_nodes, Head(all_elements))
            /\ BeamRaises(Head(all_elements), results)
         THEN << >>
         ELSE <<Head(all_elements)>>
                \o HandledPrefix(all_nodes, Tail(all_elements), results)

\* The exception draw_bridge raises on a parsed model file, if any, in the
\* order in which the code reaches the statements.
raised(file, results) ==
    IF file.kind = "array" THEN Raise("AttributeError", 66)
    ELSE
    LET nodes == Get(file.data, "nodes", << >>)
        all_elements == Get(file.data, "elements", << >>)
    IN  IF \E i \in DOMAIN nodes : ~Has(nodes[i], "id") THEN Raise("KeyError", 66)
        ELSE
        LET all_nodes == all_nodes_of(nodes)
        IN  IF \E id \in DOMAIN all_nodes : ~Has(all_nodes[id], "x")
            THEN Raise("KeyError", 75)
            ELSE IF \E id \in DOMAIN all_nodes : ~Has(all_nodes[id], "y")
            THEN Raise("KeyError", 76)
            ELSE IF LengthsRaise(all_nodes, all_elements) THEN Raise("KeyError", 86)
            ELSE IF MinRaises(all_nodes, all_elements) THEN Raise("ValueError", 87)
            ELSE IF HandledPrefix(all_nodes, all_elements, results) # all_elements
            THEN LET bad == all_elements[
                                Len(HandledPrefix(all_nodes, all_elements, results)) + 1]
                 IN  IF ~Has(bad, "id") THEN Raise("KeyError", 151)
                     ELSE IF ~Has(results[bad.id], "safety") THEN Raise("KeyError", 157)
                     ELSE Raise("KeyError", 158)
            ELSE NoRaise

\* Mutant of traces_in_order: the joints' markers are added first.
traces_markers_first(members_data, joints_data, markers) ==
    <<markers>> \o members_data \o legend_entries \o joints_data

\* The order in which draw_bridge adds its traces to the figure: the member
\* loop (lines 140-237), the legend entries (239-240), the joint loop
\* (247-312), and last the joints' markers (315-319).  Plotly draws the
\* traces in this order, a later one above an earlier one.
traces_in_order(members_data, joints_data, markers) ==
    members_data \o legend_entries \o joints_data \o <<markers>>

\* Lines 34-384.  prev is the results dict the previous call left behind;
\* the value is [ret, simulation_results]: what the call returns (None, an
\* exception, or the figure with rec_h) and the results dict it leaves.
draw_bridge(input, output, prev) ==
    IF input.kind \in {"missing", "unparseable"}
    THEN [ret |-> [kind |-> "None"], simulation_results |-> prev]
    ELSE
    LET created == new_simulation_results(prev)
        results == Merge(created.elements, read_simulation_results(output))
        node_results == read_node_results(output)
        exception == raised(input, results)
        nodes == Get(input.data, "nodes", << >>)
        all_nodes == all_nodes_of(nodes)
        order == KeyOrder(nodes, {})
        all_elements == Get(input.data, "elements", << >>)
        n == member_count(all_nodes, all_elements)
        cf_sq == complexity_factor_sq(n)
        vs_sq == visual_scale_sq(all_nodes, all_elements)
        start == [data |-> << >>, legend_set |-> created._legend_set]
    IN  IF exception # NoRaise
        THEN [ret |-> exception,
              simulation_results |->
                 [elements |-> results,
                  _legend_set |->
                     IF exception.line < 151 THEN created._legend_set
                     ELSE beams(all_nodes,
                                HandledPrefix(all_nodes, all_elements, results),
                                results, vs_sq, cf_sq, start).legend_set,
                  _support_legend |-> created._support_legend]]
        ELSE
        LET members == beams(all_nodes, all_elements, results, vs_sq, cf_sq, start)
            js == joints(all_nodes, order, node_results, vs_sq, cf_sq,
                         [data |-> << >>, annotations |-> << >>,
                          support_legend |-> created._support_legend])
        IN  [ret |->
                [kind |-> "figure",
                 data |-> traces_in_order(members.data, js.data,
                                          joint_markers(all_nodes, order, vs_sq)),
                 annotations |-> js.annotations \o joint_labels(all_nodes, order)
                                    \o beam_labels(all_nodes, all_elements, results),
                 rec_h |-> rec_h_of(all_nodes)],
             simulation_results |->
                [elements |-> results, _legend_set |-> members.legend_set,
                 _support_legend |-> js.support_legend]]

(***************************************************************************)
(* The state machine: the files on disk, and calls of draw_bridge on them. *)
(* ret is what the latest call returned and prev_ret what the call before  *)
(* it returned; simulation_results is the dict of line 55 as the latest    *)
(* call left it.                                                           *)
(***************************************************************************)
DrawBridge ==
    /\ calls < MaxCalls
    /\ LET out == draw_bridge(input_file, output_file, simulation_results)
       IN  /\ ret' = out.ret
           /\ simulation_results' = out.simulation_results
    /\ prev_ret' = ret
    /\ calls' = calls + 1
    /\ UNCHANGED <<input_file, output_file>>
    /\ UNCHANGED app_vars

Next == DrawBridge

Spec == Init /\ [][Next]_vars

(***************************************************************************)
(* The application around draw_bridge (lines 529-605).  Streamlit runs the *)
(* script from the top on every interaction: a script run writes the       *)
(* edited tables to data/input.json, calls draw_bridge and then handles    *)
(* the button that started it.                                             *)
(***************************************************************************)
\* Lines 559-567: the members written to data/input.json are the rows of the
\* beams' table between two different joints of the joints' table.
written_input(t) ==
    LET valid_node_ids == {t.nodes[i].id : i \in DOMAIN t.nodes}
        kept(b) == /\ b.start # b.end
                   /\ b.start \in valid_node_ids
                   /\ b.end \in valid_node_ids
    IN  File([nodes |-> t.nodes, elements |-> SelectSeq(t.beams, kept)])

\* Lines 529-575: a script run as far as the call of draw_bridge.
script_run(t, output, prev) ==
    LET input == written_input(t)
    IN  [input |-> input] @@ draw_bridge(input, output, prev)

\* Lines 575-585: the script goes on to the buttons only when draw_bridge
\* returned a figure and a height; an exception ends the script run.
Rendered(r) == r.kind = "figure"

\* Mutant of solver_succeeded: any exit status that is not negative counts.
solver_succeeded_nonnegative(returncode) == returncode >= 0

\* Line 601.
solver_succeeded(returncode) == returncode = 0

\* The external solver, truss_engine.exe.  On success it prints a result
\* for every member and every support of the model it was given (one of
\* MaxVariants sets of values), or the status "unstable"; on failure it
\* exits with a status that is not 0 (negative when killed by a signal) and
\* its output is not a result.
SolverResult(input, v) ==
    LET es == input.data.elements
        IsSupport(n) == n.type # "Free Joint"
        supports == SelectSeq(input.data.nodes, IsSupport)
    IN  File([elements |->
                 [i \in DOMAIN es |->
                     ElementResult(es[i].id,
                                   IF (i + v) % 2 = 0 THEN -1000 * v ELSE 1000 * v,
                                   50 + 100 * ((i + v) % 3))],
              nodes |-> [i \in DOMAIN supports |-> NodeResult(supports[i].id, 0, 260 * v)]])
SolverRuns(input) ==
    { [returncode |-> 0, out |-> SolverResult(input, v)] : v \in 1..MaxVariants }
    \cup { [returncode |-> 0, out |-> File([status |-> "unstable"])],
           [returncode |-> 1, out |-> Unparseable],
           [returncode |-> -9, out |-> Unparseable] }

AppInit ==
    /\ input_file = Missing
    /\ output_file = Missing
    /\ simulation_results = [elements |-> << >>, _legend_set |-> {}, _support_legend |-> {}]
    /\ ret = NotCalled
    /\ prev_ret = NotCalled
    /\ calls = 0
    /\ exe \in BOOLEAN
    /\ pc = "script"
    /\ NewSession

\* The user edits the tables (or reloads the page): Streamlit runs the
\* script from the top with no button pressed.
EditModel ==
    /\ pc = "idle"
    /\ tables' \in AppTables
    /\ pressed' = "none"
    /\ pc' = "script"
    /\ solver' = NotRun
    /\ message' = "none"
    /\ UNCHANGED <<input_file, output_file, simulation_results, ret, prev_ret, calls,
                   exe, solved_input>>

\* The user presses a button, which is on the page only if the latest
\* script run got to it: Streamlit runs the script from the top with that
\* button pressed.
PressRun ==
    /\ pc = "idle"
    /\ Rendered(ret)
    /\ pressed' = "run"
    /\ pc' = "script"
    /\ solver' = NotRun
    /\ message' = "none"
    /\ UNCHANGED <<input_file, output_file, simulation_results, ret, prev_ret, calls,
                   tables, exe, solved_input>>
PressClear ==
    /\ pc = "idle"
    /\ Rendered(ret)
    /\ pressed' = "clear"
    /\ pc' = "script"
    /\ solver' = NotRun
    /\ message' = "none"
    /\ UNCHANGED <<input_file, output_file, simulation_results, ret, prev_ret, calls,
                   tables, exe, solved_input>>

\* Lines 529-585: the script from the top: data/input.json is written,
\* draw_bridge is called, and the script goes on to the handler of the
\* pressed button, or to its end when none is pressed; an exception of
\* draw_bridge ends the script run.
Script ==
    /\ pc = "script"
    /\ \E run \in {script_run(tables, output_file, simulation_results)} :
          /\ input_file' = run.input
          /\ ret' = run.ret
          /\ simulation_results' = run.simulation_results
          /\ IF Rendered(run.ret) /\ pressed # "none"
             THEN pc' = "buttons" /\ pressed' = pressed
             ELSE pc' = "idle" /\ pressed' = "none"
    /\ prev_ret' = ret
    /\ calls' = Min(MaxCalls, calls + 1)
    /\ UNCHANGED <<output_file, tables, exe, solver, message, solved_input>>

\* Lines 587-593: Clear All empties the tables, removes data/output.json
\* and calls st.rerun(): the script runs again from the top.
ClearAll ==
    /\ pc = "buttons"
    /\ pressed = "clear"
    /\ tables' = EmptyTables
    /\ output_file' = Missing
    /\ solved_input' = NoSolve
    /\ pressed' = "none"
    /\ pc' = "script"
    /\ UNCHANGED <<input_file, simulation_results, ret, prev_ret, calls, exe, solver,
                   message>>

\* Lines 595-605: RUN CALCULATION, when truss_engine.exe exists, gives
\* data/input.json to the solver; on exit status 0 it writes the solver's
\* output to data/output.json and calls st.rerun(), otherwise it reports
\* "Engine Error" and the script goes on to its end.
RunCalculation ==
    /\ pc = "buttons"
    /\ pressed = "run"
    /\ pressed' = "none"
    /\ UNCHANGED <<input_file, simulation_results, ret, prev_ret, calls, tables, exe>>
    /\ IF ~exe
       THEN /\ pc' = "idle"
            /\ UNCHANGED <<output_file, solved_input, solver, message>>
       ELSE \E p \in SolverRuns(input_file) :
               /\ solver' = [ran |-> TRUE, returncode |-> p.returncode]
               /\ IF solver_succeeded(p.returncode)
                  THEN /\ output_file' = p.out
                       /\ solved_input' = input_file
                       /\ message' = "Success"
                       /\ pc' = "script"
                  ELSE /\ message' = "Engine Error"
                       /\ pc' = "idle"
                       /\ UNCHANGED <<output_file, solved_input>>

AppNext == EditModel \/ PressRun \/ PressClear \/ Script \/ ClearAll \/ RunCalculation

SpecApp == AppInit /\ [][AppNext]_vars

(***************************************************************************)
(* Vocabulary of the properties.                                           *)
(***************************************************************************)
Fresh == [elements |-> << >>, _legend_set |-> {}, _support_legend |-> {}]

Called == calls >= 1
IsFigure == Called /\ ret.kind = "figure"
IsRaise == Called /\ ret.kind = "raise"

\* The model file parsed, for the states in which it is a JSON object.
TheNodes == Get(input_file.data, "nodes", << >>)
TheElements == Get(input_file.data, "elements", << >>)
TheAllNodes == all_nodes_of(TheNodes)
TheResults == read_simulation_results(output_file)
TheVisualScaleSq == visual_scale_sq(TheAllNodes, TheElements)

SeqToSet(seq) == {seq[i] : i \in DOMAIN seq}
IsBeam(t) == t.trace = "beam"
IsArrowPart(t) == t.trace \in {"shaft", "head"}
BeamTraces == SelectSeq(ret.data, IsBeam)
ArrowParts(groups) ==
    {i \in DOMAIN ret.data :
        IsArrowPart(ret.data[i]) /\ ret.data[i].legendgroup \in groups}
IsBeamLabel(a) == a.label = "beam"
BeamLabels == SelectSeq(ret.annotations, IsBeamLabel)

\* The model file has the documented shape: every joint has id, x and y and
\* every member has id, start and end.
ModelWellFormed ==
    /\ input_file.kind = "object"
    /\ \A i \in DOMAIN TheNodes : {"id", "x", "y"} \subseteq DOMAIN TheNodes[i]
    /\ \A i \in DOMAIN TheElements :
          {"id", "start", "end"} \subseteq DOMAIN TheElements[i]

\* The result file is missing or malformed: not a JSON object, or one with a
\* member entry without id, force or safety or a joint entry without id.
ResultMalformed ==
    \/ output_file.kind # "object"
    \/ \E i \in DOMAIN Get(output_file.data, "elements", << >>) :
          ~({"id", "force", "safety"}
                \subseteq DOMAIN Get(output_file.data, "elements", << >>)[i])
    \/ \E i \in DOMAIN Get(output_file.data, "nodes", << >>) :
          ~Has(Get(output_file.data, "nodes", << >>)[i], "id")

\* C1 (as claimed): on a well-formed model that renders without results, a
\* missing or malformed result file still gives a scene, every drawn member
\* is Draft and there is no internal-force or reaction arrow.
C1_Claim ==
    (/\ Called
     /\ ModelWellFormed
     /\ draw_bridge(input_file, Missing, Fresh).ret.kind = "figure"
     /\ ResultMalformed)
    => /\ ret.kind = "figure"
       /\ \A i \in DOMAIN BeamTraces : BeamTraces[i].name = "Beam (Draft)"
       /\ ArrowParts({"Tension Force", "Compression Force", "Reaction Force"}) = {}

\* A member that names a joint the model does not have (the code reads the
\* end joint only when the start joint exists).
Dangling(all_nodes, e) ==
    /\ Has(e, "start")
    /\ \/ e.start \notin DOMAIN all_nodes
       \/ Has(e, "end") /\ e.end \notin DOMAIN all_nodes
NotDangling(e) == ~Dangling(TheAllNodes, e)
Kept == SelectSeq(TheElements, NotDangling)

\* The model file can be read as far as the members' joints.
ModelReadable ==
    /\ input_file.kind = "object"
    /\ \A i \in DOMAIN TheNodes : Has(TheNodes[i], "id")
    /\ \A i \in DOMAIN TheElements : Has(TheElements[i], "start")

\* C2 (as claimed): the metrics are those of the members with both joints
\* resolvable: complexity_factor, auto_mult and visual_scale do not change
\* when the members naming a non-existent joint are taken out of the model.
C2_Claim ==
    IsFigure =>
       /\ complexity_factor_sq(member_count(TheAllNodes, TheElements))
            = complexity_factor_sq(Len(Kept))
       /\ auto_mult_sq(member_count(TheAllNodes, TheElements)) = auto_mult_sq(Len(Kept))
       /\ TheVisualScaleSq = visual_scale_sq(TheAllNodes, Kept)

\* C3: a member naming a non-existent joint is skipped: the call raises
\* exactly when it raises without those members (and then the same
\* exception), and a scene holds a line and a label for the other members
\* only, in their order, internal-force arrows and beam legend groups for
\* the other members only.
C3_Skipped ==
    (Called /\ ModelReadable) =>
       LET reduced == [input_file EXCEPT !.data =
                          [k \in DOMAIN input_file.data |->
                              IF k = "elements" THEN Kept ELSE input_file.data[k]]]
           without == draw_bridge(reduced, output_file, Fresh).ret
           withForce == {i \in DOMAIN Kept : has_force_arrows(Kept[i], TheResults)}
       IN  /\ ret.kind = "raise" <=> without.kind = "raise"
           /\ ret.kind = "raise" => ret = without
           /\ ret.kind = "figure" =>
                /\ [i \in DOMAIN BeamTraces |-> BeamTraces[i].id]
                     = [i \in DOMAIN Kept |-> Kept[i].id]
                /\ [i \in DOMAIN BeamLabels |-> BeamLabels[i].text]
                     = [i \in DOMAIN Kept |-> Kept[i].id]
                /\ Cardinality(ArrowParts({"Tension Force", "Compression Force"}))
                     = 12 * Cardinality(withForce)
                /\ simulation_results._legend_set
                     = {legend_group_name(Kept[i], TheResults) : i \in DOMAIN Kept}

\* C3 witness: a scene of a model with a member whose end joint does not
\* exist, a member whose start joint does not exist and a member that is
\* drawn.
C3_Witness ==
    /\ IsFigure
    /\ \E i \in DOMAIN TheElements : TheElements[i].start \notin DOMAIN TheAllNodes
    /\ \E i \in DOMAIN TheElements :
          /\ TheElements[i].start \in DOMAIN TheAllNodes
          /\ TheElements[i].end \notin DOMAIN TheAllNodes
    /\ Len(BeamTraces) >= 1

\* C4 (as claimed): on a model file of the documented shape the metrics
\* (lines 72-91) are computed without raising.
C4_Claim ==
    (Called /\ ModelWellFormed) => ~(ret.kind = "raise" /\ ret.line \in 72..91)

\* C5: whenever a scene is produced, visual_scale > 0 and the recommended
\* height is within [500, 900].
C5_ScaleAndHeight ==
    IsFigure => /\ RLess(R(0, 1), TheVisualScaleSq)
                /\ ret.rec_h \in 500..900

\* C5 witness: scenes at both ends of the height range, with and without
\* members.
C5_Witness ==
    /\ IsFigure
    /\ ret.rec_h = 900
    /\ Len(BeamTraces) >= 2

\* The class a member is in by the rule of the specification: Draft
\* without a result, else by safety: < 1.0 Unsafe, < 2.0 Caution, else Safe.
ClassOf(id) ==
    IF id \notin DOMAIN TheResults THEN "Draft"
    ELSE IF TheResults[id].safety < 100 THEN "Unsafe"
    ELSE IF TheResults[id].safety >= 200 THEN "Safe"
    ELSE "Caution"
ClassLook(class) ==
    CASE class = "Draft" -> [color |-> "#3b82f6", width |-> 4, name |-> "Beam (Draft)"]
      [] class = "Unsafe" -> [color |-> "#ef4444", width |-> 6, name |-> "Beam (Unsafe)"]
      [] class = "Caution" -> [color |-> "#f59e0b", width |-> 5, name |-> "Beam (Caution)"]
      [] class = "Safe" -> [color |-> "#10b981", width |-> 6, name |-> "Beam (Safe)"]

\* C6: every member line of a scene has the color, the width and the legend
\* group of the class of its member: Draft without a result, Unsafe below
\* 1.0, Caution from 1.0 and below 2.0, Safe from 2.0.
C6_Classification ==
    IsFigure =>
       \A i \in DOMAIN BeamTraces :
          LET t == BeamTraces[i]
              look == ClassLook(ClassOf(t.id))
          IN  /\ t.color = look.color
              /\ t.width = look.width
              /\ t.name = look.name
              /\ t.legendgroup = look.name

\* C6 witness: a scene with a member at safety exactly 1.0 and one at
\* exactly 2.0, and one without a result.
C6_Witness ==
    /\ IsFigure
    /\ \E i \in DOMAIN BeamTraces :
          /\ BeamTraces[i].id \in DOMAIN TheResults
          /\ TheResults[BeamTraces[i].id].safety = 100
    /\ \E i \in DOMAIN BeamTraces :
          /\ BeamTraces[i].id \in DOMAIN TheResults
          /\ TheResults[BeamTraces[i].id].safety = 200
    /\ \E i \in DOMAIN BeamTraces : BeamTraces[i].id \notin DOMAIN TheResults

\* The traces of a scene that contribute a visible legend entry.
Visible == {i \in DOMAIN ret.data : ret.data[i].showlegend}

\* C7: in a scene no two traces that show a legend entry have the same name.
C7_LegendOnce ==
    IsFigure =>
       \A i, j \in Visible : ret.data[i].name = ret.data[j].name => i = j

\* C7 witness: a scene with two member lines of one class, two supports of
\* one type and arrows of a force kind.
C7_Witness ==
    /\ IsFigure
    /\ \E i, j \in DOMAIN ret.data :
          /\ i < j
          /\ ret.data[i].trace = "beam" /\ ret.data[j].trace = "beam"
          /\ ret.data[i].name = ret.data[j].name
    /\ \E i, j \in DOMAIN ret.data :
          /\ i < j
          /\ ret.data[i].trace = "support" /\ ret.data[j].trace = "support"
          /\ ret.data[i].name = ret.data[j].name
    /\ ArrowParts({"Compression Force"}) # {}

\* d1 > d2 for two distances v/100 * visual_scale + l/100 * length, given
\* the squares of visual_scale and of the length.
Farther(d1, d2, vs_sq, len_sq) ==
    LET a == d1.v - d2.v
        b == d1.l - d2.l
    IN  IF a >= 0 /\ b >= 0
        THEN (a > 0 /\ vs_sq[1] > 0) \/ (b > 0 /\ len_sq[1] > 0)
        ELSE IF a <= 0 /\ b <= 0 THEN FALSE
        ELSE IF a > 0
        THEN RLess(RMul(R(b * b, 1), len_sq), RMul(R(a * a, 1), vs_sq))
        ELSE RLess(RMul(R(a * a, 1), vs_sq), RMul(R(b * b, 1), len_sq))

\* The lines of the members that are analyzed, of positive length and have
\* |force| > 0.1.
Stressed ==
    {i \in DOMAIN ret.data :
        /\ ret.data[i].trace = "beam"
        /\ ret.data[i].id \in DOMAIN TheResults
        /\ Abs(TheResults[ret.data[i].id].force) > 10
        /\ <<ret.data[i].x[1], ret.data[i].y[1]>> # <<ret.data[i].x[2], ret.data[i].y[2]>>}

\* C8: the line of such a member is followed by the parts of exactly two
\* arrows; both lie on the member's axis through the midpoint, one on each
\* side; under compression (force <= 0) each tail is farther from the
\* midpoint than its tip, under tension nearer; and the member with start
\* and end swapped gets the same two arrows.
C8_ForceArrows ==
    IsFigure =>
       \A i \in Stressed :
          LET t == ret.data[i]
              e == CHOOSE m \in SeqToSet(Kept) : m.id = t.id
              swapped == [e EXCEPT !.start = e.end, !.end = e.start]
              force == TheResults[t.id].force
              len_sq == R((t.x[2] - t.x[1]) * (t.x[2] - t.x[1])
                            + (t.y[2] - t.y[1]) * (t.y[2] - t.y[1]), 16)
              axis == Direction(t.x[2] - t.x[1], t.y[2] - t.y[1])
              parts == {j \in i + 1 .. i + 12 : j \in DOMAIN ret.data}
              ends == {<<ret.data[j].from, ret.data[j].to>> : j \in parts}
          IN  /\ Cardinality(parts) = 12
              /\ \A j \in parts : IsArrowPart(ret.data[j])
              /\ i + 13 \in DOMAIN ret.data /\ ~IsArrowPart(ret.data[i + 13])
              /\ Cardinality(ends) = 2
              /\ {a[1].dir : a \in ends} = {axis, <<-axis[1], -axis[2]>>}
              /\ \A a \in ends :
                    /\ a[1].base = <<t.x[1] + t.x[2], t.y[1] + t.y[2]>>
                    /\ a[2].base = a[1].base
                    /\ a[2].dir = a[1].dir
                    /\ IF force <= 0
                       THEN Farther(a[1].dist, a[2].dist, TheVisualScaleSq, len_sq)
                       ELSE Farther(a[2].dist, a[1].dist, TheVisualScaleSq, len_sq)
              /\ ends = SeqToSet(force_arrow_ends(TheAllNodes, swapped, TheResults,
                                                  TheVisualScaleSq))

\* C8 witness: a scene with a member under compression and a member under
\* tension whose arrows are sized by the member's length.
C8_Witness ==
    /\ IsFigure
    /\ \E i \in Stressed : TheResults[ret.data[i].id].force <= 0
    /\ \E i \in Stressed :
          /\ TheResults[ret.data[i].id].force > 0
          /\ ret.data[i + 1].to.dist.l > 0

\* C9: a call of draw_bridge leaves both files as they are, and a call that
\* follows another call on the same files returns what that call returned.
C9_Idempotent ==
    [][/\ input_file' = input_file
       /\ output_file' = output_file
       /\ Called => ret' = ret]_vars

\* C9 witness: a second call that returned the scene of the first, with
\* legend entries of member classes and of supports registered.
C9_Witness ==
    /\ calls = 2
    /\ ret.kind = "figure"
    /\ ret = prev_ret
    /\ simulation_results._legend_set # {}
    /\ simulation_results._support_legend # {}

\* The model file is missing or malformed: no file, not JSON, not a JSON
\* object, a joint without id, x or y or a member without id, start or end.
ModelMalformed ==
    \/ input_file.kind # "object"
    \/ \E i \in DOMAIN TheNodes : ~({"id", "x", "y"} \subseteq DOMAIN TheNodes[i])
    \/ \E i \in DOMAIN TheElements :
          ~({"id", "start", "end"} \subseteq DOMAIN TheElements[i])

\* C10 (as claimed): on a missing or malformed model file draw_bridge
\* returns None: it neither raises nor produces a scene.
C10_Claim == (Called /\ ModelMalformed) => ret.kind = "None"

\* The members whose start joint id equals their end joint id, and the
\* model without them.
SelfLoop(e) == e.start = e.end
NotSelfLoop(e) == ~SelfLoop(e)
SelfLoopIds == {TheElements[i].id : i \in {k \in DOMAIN TheElements : SelfLoop(TheElements[k])}}
WithoutSelfLoops ==
    [input_file EXCEPT !.data =
        [k \in DOMAIN input_file.data |->
            IF k = "elements" THEN SelectSeq(TheElements, NotSelfLoop)
            ELSE input_file.data[k]]]

\* C11 (as claimed): a member whose start joint id equals its end joint id
\* is skipped: a scene has no line and no label for it and no arrows between
\* the lines other than those of the other members, and the call raises only
\* if it raises without such members too.
C11_Claim ==
    (Called /\ ModelWellFormed) =>
       LET without == draw_bridge(WithoutSelfLoops, output_file, Fresh).ret
       IN  /\ ret.kind = "raise" => without.kind = "raise"
           /\ ret.kind = "figure" =>
                /\ \A i \in DOMAIN BeamTraces : BeamTraces[i].id \notin SelfLoopIds
                /\ \A i \in DOMAIN BeamLabels : BeamLabels[i].text \notin SelfLoopIds
                /\ without.kind = "figure" =>
                      Cardinality(ArrowParts({"Tension Force", "Compression Force"}))
                         = Cardinality({i \in DOMAIN without.data :
                                           /\ IsArrowPart(without.data[i])
                                           /\ without.data[i].legendgroup
                                                 \in {"Tension Force", "Compression Force"}})

\* The joints of the model that get a load arrow and those that get a
\* reaction arrow, and the members that get internal-force arrows, by the
\* thresholds of the specification.
LoadedJoints ==
    {id \in DOMAIN TheAllNodes :
        LET lx == Get(TheAllNodes[id], "loadX", 0)
            ly == Get(TheAllNodes[id], "loadY", 0)
        IN  lx * lx + ly * ly > 1}
TheNodeResults == read_node_results(output_file)
ReactingJoints ==
    {id \in DOMAIN TheAllNodes :
        /\ id \in DOMAIN TheNodeResults
        /\ LET rx == Get(TheNodeResults[id], "rx", 0)
               ry == Get(TheNodeResults[id], "ry", 0)
           IN  rx * rx + ry * ry > 1}
ForcedMembers ==
    {i \in DOMAIN Kept :
        /\ Kept[i].id \in DOMAIN TheResults
        /\ Abs(TheResults[Kept[i].id].force) > 10}

\* An arrow whose tail and head are two distinct points: both are defined
\* (the direction is not 0/0) and lie on one ray at different distances.
\* A distance is a positive multiple of visual_scale or of the member's
\* length, and the length is positive when the direction is defined.
PositiveLength(t) ==
    /\ t.from.dir # <<0, 0>>
    /\ t.to.dir # <<0, 0>>
    /\ t.from.base = t.to.base
    /\ t.from.dir = t.to.dir
    /\ t.from.dist # t.to.dist
    /\ RLess(R(0, 1), TheVisualScaleSq)

\* C12 (as claimed): arrows are emitted only above the thresholds (|force| >
\* 0.1 for a member, magnitude / 1000 > 0.001 for a load and for a
\* reaction), and every arrow handed to add_trace_arrow has distinct tail
\* and head, so a strictly positive length.
C12_Claim ==
    IsFigure =>
       /\ Cardinality(ArrowParts({"Tension Force", "Compression Force"}))
            = 12 * Cardinality(ForcedMembers)
       /\ Cardinality(ArrowParts({"Load Force"})) = 6 * Cardinality(LoadedJoints)
       /\ Cardinality(ArrowParts({"Reaction Force"})) = 6 * Cardinality(ReactingJoints)
       /\ \A i \in DOMAIN ret.data :
             IsArrowPart(ret.data[i]) => PositiveLength(ret.data[i])

\* The direction from the tail to the head of an arrow whose ends lie on one
\* ray from the joint at multiples of visual_scale.
TailToHead(t) ==
    IF t.to.dist.v > t.from.dist.v THEN t.from.dir
    ELSE <<-t.from.dir[1], -t.from.dir[2]>>

\* For every joint with a result whose magnitude / 1000 exceeds 0.001 there
\* is exactly one reaction arrow (six parts with the same ends), drawn
\* right after the joint's support glyph and load arrow, of length 1.6 *
\* visual_scale, its nearer end 0.25 * visual_scale from the joint, whose
\* tail-to-head direction is sign times the direction of (rx, ry); no other
\* joint has a reaction arrow.
ReactionArrows(sign) ==
    /\ Cardinality(ArrowParts({"Reaction Force"})) = 6 * Cardinality(ReactingJoints)
    /\ \A id \in ReactingJoints :
          LET node == TheAllNodes[id]
              rx == Get(TheNodeResults[id], "rx", 0)
              ry == Get(TheNodeResults[id], "ry", 0)
              parts == {i \in ArrowParts({"Reaction Force"}) :
                           ret.data[i].from.base = <<2 * node.x, 2 * node.y>>}
              ends == {<<ret.data[i].from, ret.data[i].to>> : i \in parts}
          IN  /\ Cardinality(parts) = 6
              /\ Cardinality(ends) = 1
              /\ \A i \in parts :
                    LET t == ret.data[i]
                    IN  /\ PositiveLength(t)
                        /\ t.from.dist.l = 0 /\ t.to.dist.l = 0
                        /\ Abs(t.to.dist.v - t.from.dist.v) = 160
                        /\ Min(t.to.dist.v, t.from.dist.v) = 25
                        /\ TailToHead(t) = Direction(sign * rx, sign * ry)

\* C13 (as claimed): the reaction arrow's tail-to-head direction is opposite
\* to the reaction vector (rx, ry).
C13_Claim == IsFigure => ReactionArrows(-1)

\* C13 (amended): for every joint with a result whose reaction magnitude /
\* 1000 exceeds 0.001 exactly one reaction arrow is drawn, of length 1.6 *
\* visual_scale, with its nearer end (the head) 0.25 * visual_scale from the
\* joint; the arrow lies on the side of the joint opposite to (rx, ry) and
\* its tail-to-head direction is that of (rx, ry): it points into the joint.
C13_ReactionArrow ==
    IsFigure =>
       /\ ReactionArrows(1)
       /\ \A i \in ArrowParts({"Reaction Force"}) :
             ret.data[i].to.dist.v < ret.data[i].from.dist.v

\* C13 witness: a scene with the reaction arrow of a joint whose reaction
\* has two non-zero components.
C13_Witness ==
    /\ IsFigure
    /\ \E id \in ReactingJoints :
          /\ Get(TheNodeResults[id], "rx", 0) # 0
          /\ Get(TheNodeResults[id], "ry", 0) # 0
    /\ ArrowParts({"Reaction Force"}) # {}

\* C14 (as claimed): the final visual_scale is never below 0.1.
C14_Claim == IsFigure => RLeq(R(1, 100), TheVisualScaleSq)

\* C14 (amended): the floor 0.1 is on the term of min_len, before the
\* multiplication: visual_scale is at least 0.1 * complexity_factor *
\* auto_mult and at most 0.6 * complexity_factor * auto_mult, where
\* complexity_factor and auto_mult are those of the number of members.
C14_FlooredTerm ==
    IsFigure =>
       LET n == Len(TheElements)
           factor_sq == RMul(RMax(R(1225, 10000), R(12, Max(12, n))),
                             IF n > 20 THEN R(3025, 10000)
                             ELSE IF n < 8 THEN R(5625, 10000) ELSE R(4225, 10000))
       IN  /\ RLeq(RMul(R(1, 100), factor_sq), TheVisualScaleSq)
           /\ RLeq(TheVisualScaleSq, RMul(R(36, 100), factor_sq))

\* C14 witness: a scene of a model whose shortest member is shorter than a
\* third of a metre, so that the floor applies, and whose visual_scale is
\* below 0.1.
C14_Witness ==
    /\ IsFigure
    /\ \E i \in DOMAIN Kept :
          /\ RLess(R(0, 1), length_sq(TheAllNodes, Kept[i]))
          /\ RLess(RMul(length_sq(TheAllNodes, Kept[i]), R(9, 100)), R(1, 100))
    /\ RLess(TheVisualScaleSq, R(1, 100))

\* The extents of the joints' bounding box, 10 by 5 without joints.
SpanX ==
    LET xs == {TheAllNodes[id].x : id \in DOMAIN TheAllNodes}
    IN  IF xs = {} THEN 10 ELSE SetMax(xs) - SetMin(xs)
SpanY ==
    LET ys == {TheAllNodes[id].y : id \in DOMAIN TheAllNodes}
    IN  IF ys = {} THEN 5 ELSE SetMax(ys) - SetMin(ys)
\* h is 500 + q clamped to [500, 900] for an integer q nearest to
\* dy * 300 / dx (either of the two on a tie), respectively for the integer
\* part q of dy * 300 / dx; dy * 300 / dx stands for AspectRatio * 300 and
\* is 300 when dx is not positive.
IsClampedNearest(h, dx, dy) ==
    IF dx <= 0 THEN h = 800
    ELSE \/ h = 900 /\ 2 * dy * 300 >= (2 * 400 - 1) * dx
         \/ h \in 500..900 /\ 2 * Abs(dy * 300 - (h - 500) * dx) <= dx
IsClampedIntegerPart(h, dx, dy) ==
    IF dx <= 0 THEN h = 800
    ELSE \/ h = 900 /\ dy * 300 >= 400 * dx
         \/ /\ h \in 500..899
            /\ (h - 500) * dx <= dy * 300
            /\ dy * 300 < (h - 499) * dx

\* C15 (as claimed): the recommended height is clamp(500 + round(AspectRatio
\* * 300), 500, 900) with round-to-nearest.
C15_Claim == IsFigure => IsClampedNearest(ret.rec_h, SpanX, SpanY)

\* C15 (amended): the recommended height is clamp(500 + trunc(AspectRatio *
\* 300), 500, 900), where trunc drops the fraction, AspectRatio = SpanY /
\* SpanX over the joints' bounding box, AspectRatio = 1 when SpanX is not
\* positive, and the extents are 10 by 5 when there are no joints.
C15_Truncated == IsFigure => IsClampedIntegerPart(ret.rec_h, SpanX, SpanY)

\* C15 witness: a scene whose AspectRatio * 300 has a fraction of a half or
\* more and whose height is below the upper clamp.
C15_Witness ==
    /\ IsFigure
    /\ SpanX > 0
    /\ 2 * ((SpanY * 300) % SpanX) >= SpanX
    /\ ret.rec_h < 900

\* The positions of the joints' marker trace in the scene.
MarkerPositions == {i \in DOMAIN ret.data : ret.data[i].trace = "joints"}

\* C16: a scene has one joints' marker trace and it is the last trace:
\* every member line, every arrow part (internal force, load, reaction),
\* every legend entry and every support glyph comes before it, and every
\* joint that is not a Free Joint has its support glyph before it.
C16_MarkersOnTop ==
    IsFigure =>
       /\ MarkerPositions = {Len(ret.data)}
       /\ \A i \in DOMAIN ret.data :
             ret.data[i].trace \in {"beam", "shaft", "head", "support", "legend"}
                => \A m \in MarkerPositions : i < m
       /\ \A id \in DOMAIN TheAllNodes :
             Get(TheAllNodes[id], "type", "Free Joint") # "Free Joint"
                => \E i \in DOMAIN ret.data :
                      /\ ret.data[i].trace = "support"
                      /\ ret.data[i].x = TheAllNodes[id].x
                      /\ ret.data[i].y = TheAllNodes[id].y
                      /\ ret.data[i].name = TheAllNodes[id].type
                      /\ \A m \in MarkerPositions : i < m

\* C16 witness: a scene with a member line, internal-force arrows, a load
\* arrow, a reaction arrow and a support glyph.
C16_Witness ==
    /\ IsFigure
    /\ Len(BeamTraces) >= 1
    /\ ArrowParts({"Tension Force", "Compression Force"}) # {}
    /\ ArrowParts({"Load Force"}) # {}
    /\ ArrowParts({"Reaction Force"}) # {}
    /\ \E i \in DOMAIN ret.data : ret.data[i].trace = "support"

\* C17: in a scene the members with a line are the members with a label,
\* in the same order, and the background color of each '#id' label is the
\* color of that member's line: the two classifications agree.
C17_LabelMatchesLine ==
    IsFigure =>
       /\ Len(BeamLabels) = Len(BeamTraces)
       /\ \A i \in DOMAIN BeamTraces :
             /\ BeamLabels[i].text = BeamTraces[i].id
             /\ BeamLabels[i].bgcolor = BeamTraces[i].color
             /\ BeamLabels[i].x2 = BeamTraces[i].x[1] + BeamTraces[i].x[2]
             /\ BeamLabels[i].y2 = BeamTraces[i].y[1] + BeamTraces[i].y[2]

\* C17 witness: a scene with labelled members that are Draft, Caution and
\* Safe, one at safety exactly 1.0 and one at exactly 2.0.
C17_Witness ==
    /\ IsFigure
    /\ {BeamLabels[i].bgcolor : i \in DOMAIN BeamLabels}
          = {"#3b82f6", "#f59e0b", "#10b981"}
    /\ \E i \in DOMAIN BeamTraces :
          /\ BeamTraces[i].id \in DOMAIN TheResults
          /\ TheResults[BeamTraces[i].id].safety = 100
    /\ \E i \in DOMAIN BeamTraces :
          /\ BeamTraces[i].id \in DOMAIN TheResults
          /\ TheResults[BeamTraces[i].id].safety = 200

\* C18: data/output.json is written only by the RUN CALCULATION handler
\* after a solver run that exited with status 0; after a solver run that
\* exited with another status the handler reports "Engine Error", leaves
\* data/output.json as it was (neither created, overwritten nor deleted)
\* and does not call st.rerun(): the script does not run again.
C18_WrittenOnSuccessOnly ==
    [][/\ (output_file' # output_file /\ output_file'.kind # "missing")
            => /\ pc = "buttons" /\ pressed = "run"
               /\ solver'.ran /\ solver'.returncode = 0
       /\ (pc = "buttons" /\ pressed = "run" /\ solver'.ran /\ solver'.returncode # 0)
            => /\ output_file' = output_file
               /\ message' = "Engine Error"
               /\ pc' # "script"]_vars

\* C18 witness: a solver run that exited with a status other than 0, after a
\* successful one whose result file is still there.
C18_Witness ==
    /\ pc = "idle"
    /\ solver.ran
    /\ solver.returncode # 0
    /\ message = "Engine Error"
    /\ output_file.kind = "object"
    /\ solved_input = input_file

\* C19 (as claimed): whenever draw_bridge has been called on a result file
\* that holds member results, that file was written by a successful solver
\* run on the content of data/input.json that was rendered: results
\* computed for an earlier model are not drawn on a later, different one.
C19_Claim ==
    (/\ Called
     /\ pc # "script"
     /\ output_file.kind # "missing"
     /\ DOMAIN TheResults # {})
    => solved_input = input_file

====
